---- MODULE Spec2Model ----
(***************************************************************************)
(* Verification model of the popcorn movie-rating front end.               *)
(*                                                                         *)
(* Part 1: the batch MovieExplorer component                               *)
(*         (app/src/components/MovieExplorer.tsx), specification Spec.     *)
(* Part 2: the single-preload MovieRatingPage with its retrying            *)
(*         fetchMovieFromAPI, specification PageSpec.                      *)
(* Part 3: the cookie-based ApiContext and AuthContext                     *)
(*         (app/src_LEGACY/contexts), specification AuthSpec.              *)
(* Part 4: calculateCompatibility of FriendMovieComparison, with the       *)
(*         double-precision arithmetic it is computed in, specification    *)
(*         CompatSpec.                                                     *)
(* Part 5: the single-fetch MovieExplorer variant, which fetches one movie *)
(*         per request and awaits groups of requests jointly,              *)
(*         specification QueueSpec.                                        *)
(* Part 6: the token-based AuthProvider (app/src/contexts/AuthContext.tsx),*)
(*         specification TokenSpec.                                        *)
(* Part 7: the oldest App variant (app/src/theme.ts), specification        *)
(*         AppSpec.                                                        *)
(*                                                                         *)
(* React semantics used by the model.  A component's handlers and effects  *)
(* read the state of the render they were created in (their closure) and   *)
(* write through setters.  Every macrotask of the event loop (a click, the *)
(* resumption of an awaited fetch) is one action: the handler body up to   *)
(* its next await, then the re-render React performs for the batched state *)
(* updates, then the effects of that render whose dependencies changed.    *)
(* Effects read the values of the render they belong to, so a setter       *)
(* called by an earlier effect of the same render is not visible to a      *)
(* later one.  A movie is modelled by its identifier.                      *)
(***************************************************************************)
EXTENDS Integers, Sequences, FiniteSets, TLC

VARIABLES
    mounted,          \* the component has been mounted (first render done)
    unmounted,        \* the component has been unmounted, its state discarded
    currentMovie,     \* useState<Movie | null>
    movieQueue,       \* useState<Movie[]>
    loadingMovie,     \* useState(false)
    seenMovieIds,     \* useState<number[]>
    error,            \* useState<string | null>
    isInitialMount,   \* useRef(true)
    isReplenishing,   \* useRef(false)
    fetches,          \* GET /movies requests in flight
    posts,            \* POST /movies/preferences requests in flight
    reqCount,         \* number of GET requests issued so far
    nextId,           \* MovieSource: smallest identifier never returned
    lastOp,           \* observer: the step taken last
    \* Part 2: the single-preload MovieRatingPage
    page,             \* its useState cells, as one record
    user,             \* useAuth().user is set
    tasks,            \* running fetchNextMovie / preloadNextMovie calls
    taskCount,        \* number of such calls started so far
    ratingPosts,      \* rating POSTs in flight
    sourceNext,       \* the movie endpoint: next identifier it returns
    pageOp,           \* observer: the step taken last
    \* Part 3: the cookie-based AuthContext and ApiContext
    auth,             \* AuthProvider's useState cells, as one record
    api,              \* ApiProvider's useState cells, as one record
    calls,            \* login, checkAuthStatus and api requests in flight
    callCount,        \* number of such calls started so far
    authOp,           \* observer: the step taken last
    \* Part 4: FriendMovieComparison
    combinedPreferences,  \* useState<CombinedPreference[]>
    compatibility,        \* the score rendered from calculateCompatibility()
    \* Part 5: the single-fetch MovieExplorer variant
    explorer,         \* its useState cells, as one record
    batches,          \* groups of fetchMovie calls awaited jointly, in flight
    batchCount,       \* number of such groups started so far
    issued,           \* number of GET /movies requests issued so far
    explorerOp,       \* observer: the step taken last
    \* Part 6: the token-based AuthProvider
    session,          \* its useState cells, as one record
    storedToken,      \* localStorage 'token'
    requests,         \* its fetch calls in flight
    requestCount,     \* number of such calls started so far
    sessionOp,        \* observer: the step taken last
    \* Part 7: the oldest App variant
    app,              \* its useState cells, as one record
    appCalls,         \* its calls in flight: fetchMovieFromAPI, rating POST
    appCount,         \* number of such calls started so far
    appOp             \* observer: the step taken last

exVars == <<mounted, unmounted, currentMovie, movieQueue, loadingMovie, seenMovieIds,
            error, isInitialMount, isReplenishing, fetches, posts, reqCount,
            nextId, lastOp>>

pgVars == <<page, user, tasks, taskCount, ratingPosts, sourceNext, pageOp>>

auVars == <<auth, api, calls, callCount, authOp>>

cmVars == <<combinedPreferences, compatibility>>

sxVars == <<explorer, batches, batchCount, issued, explorerOp>>

tkVars == <<session, storedToken, requests, requestCount, sessionOp>>

apVars == <<app, appCalls, appCount, appOp>>

vars == <<exVars, pgVars, auVars, cmVars, sxVars, tkVars, apVars>>

(* What the actions of one part leave alone *)
nonExVars == <<pgVars, auVars, cmVars, sxVars, tkVars, apVars>>

nonPgVars == <<exVars, auVars, cmVars, sxVars, tkVars, apVars>>

nonAuVars == <<exVars, pgVars, cmVars, sxVars, tkVars, apVars>>

nonCmVars == <<exVars, pgVars, auVars, sxVars, tkVars, apVars>>

nonSxVars == <<exVars, pgVars, auVars, cmVars, tkVars, apVars>>

nonTkVars == <<exVars, pgVars, auVars, cmVars, sxVars, apVars>>

nonApVars == <<exVars, pgVars, auVars, cmVars, sxVars, tkVars>>

----------------------------------------------------------------------------
(* Program constants *)

FETCH_SIZE == 10
MIN_QUEUE_SIZE == 5
NULL == 0
NoError == "null"
ErrFetchMovies == "Failed to fetch movies"
ErrFetchMovie == "Failed to fetch movie"

(* Bounds of the model *)

MaxFetches == 4     \* GET requests issued in one session
MaxPosts == 1       \* rating writes in flight at the same time

Ratings == {"yes", "maybe", "no"}

----------------------------------------------------------------------------
(* Helpers *)

Range(s) == {s[i] : i \in 1..Len(s)}

Run(start, n) == [i \in 1..n |-> start + i - 1]

RemoveAt(s, i) == [j \in 1..(Len(s) - 1) |-> IF j < i THEN s[j] ELSE s[j + 1]]

Max(a, b) == IF a >= b THEN a ELSE b

(* The component state seen as one record: a render snapshot or the        *)
(* state a handler is building.                                            *)
Cur ==
    [currentMovie |-> currentMovie, movieQueue |-> movieQueue,
     loadingMovie |-> loadingMovie, seenMovieIds |-> seenMovieIds,
     error |-> error, isInitialMount |-> isInitialMount,
     isReplenishing |-> isReplenishing, fetches |-> fetches,
     reqCount |-> reqCount]

(* Mutant: fetchMovies sends no ignore parameter *)
fetchMoviesIssueNoIgnore(st, r, kind, count) ==
    [st EXCEPT !.reqCount = @ + 1,
               !.fetches = @ \cup {[id |-> st.reqCount + 1, kind |-> kind,
                                    count |-> count, ignore |-> <<>>]}]

(* fetchMovies up to its await: the request carries the seenMovieIds of    *)
(* the render r the callback was created in.                               *)
fetchMoviesIssue(st, r, kind, count) ==
    [st EXCEPT !.reqCount = @ + 1,
               !.fetches = @ \cup {[id |-> st.reqCount + 1, kind |-> kind,
                                    count |-> count,
                                    ignore |-> r.seenMovieIds]}]

(* fetchMovies after its await: resp.ok = FALSE is a rejected api.get or   *)
(* an invalid body, both of which make fetchMovies return [].              *)
fetchMoviesResult(resp) == IF resp.ok THEN resp.movies ELSE <<>>

(* Mutant: only the first movie of a batch is recorded as seen *)
fetchMoviesResumeFirstOnly(st, resp) ==
    IF resp.ok /\ Len(resp.movies) > 0
    THEN [st EXCEPT !.seenMovieIds = Append(@, resp.movies[1])]
    ELSE st

fetchMoviesResume(st, resp) ==
    IF resp.ok /\ Len(resp.movies) > 0
    THEN [st EXCEPT !.seenMovieIds = @ \o resp.movies]
    ELSE st

(* Mutant: an empty or failed replenishment is surfaced as an error *)
replenishQueueResumeSurfaced(st, movies) ==
    LET a == IF Len(movies) > 0
             THEN [st EXCEPT !.movieQueue = @ \o movies]
             ELSE [st EXCEPT !.error = ErrFetchMovies]
    IN  [a EXCEPT !.loadingMovie = FALSE, !.isReplenishing = FALSE]

(* replenishQueue after its await; isMounted is a local that stays true *)
replenishQueueResume(st, movies) ==
    LET a == IF Len(movies) > 0
             THEN [st EXCEPT !.movieQueue = @ \o movies]
             ELSE st
    IN  [a EXCEPT !.loadingMovie = FALSE, !.isReplenishing = FALSE]

(* Mutant: replenishQueue without its reentrancy guard *)
replenishQueueUnguarded(st, r) ==
    LET a == [st EXCEPT !.isReplenishing = TRUE]
        b == IF Len(r.movieQueue) < 2
             THEN [a EXCEPT !.loadingMovie = TRUE]
             ELSE a
    IN  fetchMoviesIssue(b, r, "replenish", FETCH_SIZE)

(* replenishQueue up to its await *)
replenishQueue(st, r) ==
    IF st.isReplenishing
    THEN st
    ELSE LET a == [st EXCEPT !.isReplenishing = TRUE]
             b == IF Len(r.movieQueue) < 2
                  THEN [a EXCEPT !.loadingMovie = TRUE]
                  ELSE a
         IN  fetchMoviesIssue(b, r, "replenish", FETCH_SIZE)

(* initialize up to its await *)
initialize(st, r) ==
    IF ~st.isInitialMount
    THEN st
    ELSE fetchMoviesIssue([st EXCEPT !.loadingMovie = TRUE,
                                     !.error = NoError],
                          r, "init", FETCH_SIZE)

(* Mutant: initialize queues the whole batch, the first movie included *)
initializeResumeNoSlice(st, movies) ==
    LET a == IF Len(movies) > 0
             THEN LET b == [st EXCEPT !.currentMovie = movies[1]]
                  IN  IF Len(movies) > 1
                      THEN [b EXCEPT !.movieQueue = movies]
                      ELSE b
             ELSE [st EXCEPT !.error = ErrFetchMovies]
    IN  [a EXCEPT !.loadingMovie = FALSE, !.isInitialMount = FALSE]

(* initialize after its await *)
initializeResume(st, movies) ==
    LET a == IF Len(movies) > 0
             THEN LET b == [st EXCEPT !.currentMovie = movies[1]]
                  IN  IF Len(movies) > 1
                      THEN [b EXCEPT !.movieQueue = Tail(movies)]
                      ELSE b
             ELSE [st EXCEPT !.error = ErrFetchMovies]
    IN  [a EXCEPT !.loadingMovie = FALSE, !.isInitialMount = FALSE]

(* Mutant: moveToNextMovie shows the queue head but leaves it queued *)
moveToNextMovieNoPop(st, r) ==
    IF Len(r.movieQueue) > 0
    THEN [st EXCEPT !.currentMovie = r.movieQueue[1]]
    ELSE IF ~st.isReplenishing
         THEN fetchMoviesIssue([st EXCEPT !.isReplenishing = TRUE,
                                          !.loadingMovie = TRUE],
                               r, "single", 1)
         ELSE st

(* moveToNextMovie; r is the render the callback closes over *)
moveToNextMovie(st, r) ==
    IF Len(r.movieQueue) > 0
    THEN [st EXCEPT !.currentMovie = r.movieQueue[1],
                    !.movieQueue = Tail(@)]
    ELSE IF ~st.isReplenishing
         THEN fetchMoviesIssue([st EXCEPT !.isReplenishing = TRUE,
                                          !.loadingMovie = TRUE],
                               r, "single", 1)
         ELSE st

(* Mutant: the flag is reset only when the single fetch returned a movie *)
moveToNextMovieResumeStuck(st, movies) ==
    LET a == IF Len(movies) > 0
             THEN [st EXCEPT !.currentMovie = movies[1],
                             !.isReplenishing = FALSE]
             ELSE [st EXCEPT !.error = ErrFetchMovie]
    IN  [a EXCEPT !.loadingMovie = FALSE]

(* the .then callback of moveToNextMovie's fetchMovies(1) *)
moveToNextMovieResume(st, movies) ==
    LET a == IF Len(movies) > 0
             THEN [st EXCEPT !.currentMovie = movies[1]]
             ELSE [st EXCEPT !.error = ErrFetchMovie]
    IN  [a EXCEPT !.loadingMovie = FALSE, !.isReplenishing = FALSE]

(* Mutant: the effect replenishes whatever the queue length *)
queueSizeCondNoThreshold(r) ==
    /\ ~r.loadingMovie
    /\ Len(r.movieQueue) >= 0
    /\ r.currentMovie # NULL

(* The condition of the queue-size effect, on the values of render r *)
queueSizeCond(r) ==
    /\ ~r.loadingMovie
    /\ Len(r.movieQueue) < MIN_QUEUE_SIZE
    /\ Len(r.movieQueue) >= 0
    /\ r.currentMovie # NULL

(* Mutant: the effect shows the loading state whenever it replenishes *)
queueSizeEffectBlocking(st, r) ==
    IF queueSizeCond(r)
    THEN [replenishQueue(st, r) EXCEPT !.loadingMovie = TRUE]
    ELSE st

(* The queue-size effect of render r; st is the state being built by the   *)
(* effects of that render.                                                 *)
queueSizeEffect(st, r) ==
    IF queueSizeCond(r) THEN replenishQueue(st, r) ELSE st

(* Dependency arrays of the two effects *)
initDepsChanged(prev, r) == prev.seenMovieIds # r.seenMovieIds

queueDepsChanged(prev, r) ==
    \/ prev.loadingMovie # r.loadingMovie
    \/ Len(prev.movieQueue) # Len(r.movieQueue)
    \/ prev.seenMovieIds # r.seenMovieIds
    \/ prev.currentMovie # r.currentMovie

(* The re-render after a handler turned render prev into state r, and the  *)
(* effects of that render in declaration order.                            *)
Effects(prev, r) ==
    LET s1 == IF initDepsChanged(prev, r) THEN initialize(r, r) ELSE r
    IN  IF queueDepsChanged(prev, r) THEN queueSizeEffect(s1, r) ELSE s1

(* The effects of the first render: every effect runs *)
MountEffects(r) == queueSizeEffect(initialize(r, r), r)

(* Which branch the component renders *)
View ==
    IF loadingMovie THEN "Loading"
    ELSE IF error # NoError THEN "Error"
    ELSE IF currentMovie = NULL THEN "Empty"
    ELSE "Ready"

(* Mutant: the three-step scale 3 / 2 / 1 *)
numericRatingThreeStep(rating) ==
    IF rating = "yes" THEN 3 ELSE IF rating = "maybe" THEN 2 ELSE 1

(* const numericRating = rating === 'yes' ? 5 : rating === 'maybe' ? 3 : 1 *)
numericRating(rating) ==
    IF rating = "yes" THEN 5 ELSE IF rating = "maybe" THEN 3 ELSE 1

----------------------------------------------------------------------------
(* MovieSource: what a GET /movies?results=count&ignore=... may answer.    *)
(* It fails, or returns at most count fresh movies, or (a source that does *)
(* not honour the ignore list) returns the first movie of the session      *)
(* again.  The batch lengths tried are the empty batch, a single movie, a  *)
(* short batch and the full batch.                                         *)

BatchLens == {0, 1, 4, FETCH_SIZE}

Responses(f) ==
    {[ok |-> FALSE, movies |-> <<>>]} \cup
    {[ok |-> TRUE, movies |-> Run(nextId, n)] :
        n \in {k \in BatchLens : k <= f.count}} \cup
    {[ok |-> TRUE, movies |-> Run(1, 1)]}

----------------------------------------------------------------------------
(* Writing a record back to the variables *)

Install(st) ==
    /\ currentMovie' = st.currentMovie
    /\ movieQueue' = st.movieQueue
    /\ loadingMovie' = st.loadingMovie
    /\ seenMovieIds' = st.seenMovieIds
    /\ error' = st.error
    /\ isInitialMount' = st.isInitialMount
    /\ isReplenishing' = st.isReplenishing
    /\ fetches' = st.fetches
    /\ reqCount' = st.reqCount
    /\ st.reqCount <= MaxFetches

ExInit ==
    /\ mounted = FALSE
    /\ unmounted = FALSE
    /\ currentMovie = NULL
    /\ movieQueue = <<>>
    /\ loadingMovie = FALSE
    /\ seenMovieIds = <<>>
    /\ error = NoError
    /\ isInitialMount = TRUE
    /\ isReplenishing = FALSE
    /\ fetches = {}
    /\ posts = <<>>
    /\ reqCount = 0
    /\ nextId = 1
    /\ lastOp = [op |-> "none", kind |-> "none", some |-> FALSE,
                 blocked |-> FALSE, rated |-> NULL]

(* The observer record written by every step *)
Op(name, kind, some, blocked, rated) ==
    [op |-> name, kind |-> kind, some |-> some, blocked |-> blocked,
     rated |-> rated]

(* The render after a handler calls replenishQueue, which returns at its   *)
(* guard because the flag is set.                                          *)
ReplenishBlocked(prev, r) ==
    /\ queueDepsChanged(prev, r)
    /\ queueSizeCond(r)
    /\ r.isReplenishing

(* First render and its effects *)
Mount ==
    /\ ~mounted
    /\ mounted' = TRUE
    /\ Install(MountEffects(Cur))
    /\ lastOp' = Op("Mount", "none", FALSE, FALSE, NULL)
    /\ UNCHANGED <<unmounted, posts, nextId>>
    /\ UNCHANGED nonExVars

(* The Skip button: onClick = moveToNextMovie; rendered in every view *)
Skip ==
    /\ mounted
    /\ ~unmounted
    /\ LET st == moveToNextMovie(Cur, Cur)
       IN  /\ Install(Effects(Cur, st))
           /\ lastOp' = Op("Skip", "none", Len(movieQueue) > 0,
                           ReplenishBlocked(Cur, st), NULL)
    /\ UNCHANGED <<mounted, unmounted, posts, nextId>>
    /\ UNCHANGED nonExVars

(* A mutant of handleRatingCall: without the early return *)
handleRatingCallUnguarded(rating) ==
    /\ mounted
    /\ ~unmounted
    /\ Len(posts) < MaxPosts
    /\ UNCHANGED nonExVars
    /\ LET movieId == currentMovie
           st == moveToNextMovie(Cur, Cur)
       IN  /\ Install(Effects(Cur, st))
           /\ posts' = Append(posts, [movie_id |-> movieId,
                                      rating |-> numericRating(rating)])
           /\ lastOp' = Op("Rate", rating, Len(movieQueue) > 0,
                           ReplenishBlocked(Cur, st), movieId)
           /\ UNCHANGED <<mounted, unmounted, nextId>>

(* handleRating(rating) of the current render, up to its await *)
handleRatingCall(rating) ==
    /\ mounted
    /\ ~unmounted
    /\ Len(posts) < MaxPosts
    /\ UNCHANGED nonExVars
    /\ IF currentMovie = NULL
       THEN /\ lastOp' = Op("Rate", rating, Len(movieQueue) > 0, FALSE, NULL)
            /\ UNCHANGED <<mounted, unmounted, currentMovie, movieQueue,
                           loadingMovie, seenMovieIds, error, isInitialMount,
                           isReplenishing, fetches, posts, reqCount, nextId>>
       ELSE LET movieId == currentMovie
                st == moveToNextMovie(Cur, Cur)
            IN  /\ Install(Effects(Cur, st))
                /\ posts' = Append(posts, [movie_id |-> movieId,
                                           rating |-> numericRating(rating)])
                /\ lastOp' = Op("Rate", rating, Len(movieQueue) > 0,
                                ReplenishBlocked(Cur, st), movieId)
                /\ UNCHANGED <<mounted, unmounted, nextId>>

(* A rating button: onClick = handleRating(rating).  The rating buttons    *)
(* are rendered in the Ready view only.                                    *)
handleRating(rating) ==
    /\ View = "Ready"
    /\ handleRatingCall(rating)

(* The continuation a fetch of the given kind resumes *)
Resume(st, kind, movies) ==
    IF kind = "init" THEN initializeResume(st, movies)
    ELSE IF kind = "replenish" THEN replenishQueueResume(st, movies)
    ELSE moveToNextMovieResume(st, movies)

(* The view is unmounted (the user navigates away).  No effect of the      *)
(* component has a cleanup function: requests in flight are neither        *)
(* aborted nor told about it.                                              *)
Unmount ==
    /\ mounted
    /\ ~unmounted
    /\ unmounted' = TRUE
    /\ lastOp' = Op("Unmount", "none", FALSE, FALSE, NULL)
    /\ UNCHANGED <<mounted, currentMovie, movieQueue, loadingMovie,
                   seenMovieIds, error, isInitialMount, isReplenishing,
                   fetches, posts, reqCount, nextId>>
    /\ UNCHANGED nonExVars

(* A GET /movies request completes with response resp: fetchMovies         *)
(* resumes, then its caller, then the render and its effects.  After the   *)
(* component was unmounted the continuations still run and call their      *)
(* setters (nothing clears isMounted, no request is aborted); no render    *)
(* and no effect follows.                                                  *)
FetchDone(f, resp) ==
    /\ f \in fetches
    /\ resp \in Responses(f)
    /\ LET a == [Cur EXCEPT !.fetches = @ \ {f}]
           b == fetchMoviesResume(a, resp)
           c == Resume(b, f.kind, fetchMoviesResult(resp))
       IN  /\ Install(IF unmounted THEN c ELSE Effects(Cur, c))
           /\ lastOp' = Op("FetchDone", f.kind,
                           Len(fetchMoviesResult(resp)) > 0,
                           ReplenishBlocked(Cur, c), NULL)
    /\ nextId' = IF resp.ok /\ Len(resp.movies) > 0
                 THEN Max(nextId, resp.movies[Len(resp.movies)] + 1)
                 ELSE nextId
    /\ UNCHANGED <<mounted, unmounted, posts>>
    /\ UNCHANGED nonExVars

(* Mutant: a failed rating write is surfaced as an error *)
PostDoneSurfaced(i, ok) ==
    /\ i \in 1..Len(posts)
    /\ posts' = RemoveAt(posts, i)
    /\ error' = IF ok THEN error ELSE "Failed to save rating"
    /\ lastOp' = Op("PostDone", IF ok THEN "ok" ELSE "failed", FALSE, FALSE,
                    NULL)
    /\ UNCHANGED <<mounted, unmounted, currentMovie, movieQueue, loadingMovie,
                   seenMovieIds, isInitialMount, isReplenishing,
                   fetches, reqCount, nextId>>
    /\ UNCHANGED nonExVars

(* A rating write completes, with success or failure: handleRating only    *)
(* logs a failure.                                                         *)
PostDone(i, ok) ==
    /\ i \in 1..Len(posts)
    /\ posts' = RemoveAt(posts, i)
    /\ lastOp' = Op("PostDone", IF ok THEN "ok" ELSE "failed", FALSE, FALSE,
                    NULL)
    /\ UNCHANGED <<mounted, unmounted, currentMovie, movieQueue, loadingMovie,
                   seenMovieIds, error, isInitialMount, isReplenishing,
                   fetches, reqCount, nextId>>
    /\ UNCHANGED nonExVars

Next ==
    \/ Mount
    \/ Skip
    \/ \E rating \in Ratings : handleRating(rating)
    \/ \E f \in fetches : \E resp \in Responses(f) : FetchDone(f, resp)
    \/ \E i \in 1..Len(posts) : \E ok \in BOOLEAN : PostDone(i, ok)

----------------------------------------------------------------------------
(* Part 2: MovieRatingPage (single preload, retrying fetch).               *)
(* movieData and nextMovieData hold <<>> for null and <<id>> for a movie.  *)

maxRetries == 3
RetryDelayUnit == 1000
SilentRetryDelay == 1000

MaxTasks == 4       \* fetchNextMovie / preloadNextMovie calls in a session

emptyMovie == <<0>>
PgNull == <<>>

MsgNoMovieId == "Cannot submit rating: Movie ID not available"
MsgLogIn == "Please log in to rate movies"
MsgRatingFailed == "Failed to submit rating, but we moved to the next movie."
MsgLoadFailed == "Failed to load next movie. Please try again later."

selectionToRating(selection) ==
    IF selection = "no" THEN 1 ELSE IF selection = "maybe" THEN 2 ELSE 3

processMovieData(id) == <<id>>

(* What one request of fetchMovieFromAPI can meet: a movie; a body with    *)
(* success === false or status_code === 34; a thrown Error (response not   *)
(* ok, network failure, unreadable body); a thrown value whose message     *)
(* contains 'status_code: 34' or that is no Error.                         *)
Outcomes == {"movie", "transient", "error", "error34"}

(* A call of fetchNextMovie or preloadNextMovie starts: fetchMovieFromAPI  *)
(* sends its first request.  hadMovie is the closure's movieData being     *)
(* set; callReqs counts the requests of the running call of                *)
(* fetchMovieFromAPI, reqs those of both calls.                            *)
NewTask(n, kind, hadMovie) ==
    [id |-> n, kind |-> kind, round |-> 1, currentRetry |-> 0,
     pc |-> "await", hadMovie |-> hadMovie, reqs |-> 1, callReqs |-> 1,
     delays |-> <<>>, onlyTransient |-> TRUE]

(* The component state a handler builds *)
PgCur == [page |-> page, tasks |-> tasks, taskCount |-> taskCount]

fetchNextMovie(st, hadMovie) ==
    [st EXCEPT !.page.loading = TRUE,
               !.taskCount = @ + 1,
               !.tasks = @ \cup {NewTask(st.taskCount + 1, "fetchNext",
                                         hadMovie)}]

preloadNextMovie(st) ==
    [st EXCEPT !.taskCount = @ + 1,
               !.tasks = @ \cup {NewTask(st.taskCount + 1, "preload", FALSE)}]

(* The effect with dependency [movieData]; it runs after a render in which *)
(* setMovieData installed another object.                                  *)
preloadEffect(st) ==
    IF /\ st.page.movieData # PgNull
       /\ st.page.movieData[1] # 0
       /\ st.page.nextMovieData = PgNull
    THEN preloadNextMovie(st)
    ELSE st

(* fetchMovieFromAPI returned data (a movie, or <<>> for null) to the      *)
(* caller t in its first or second round.                                  *)
Returned(st, t, data) ==
    LET rest == [st EXCEPT !.tasks = {u \in @ : u.id # t.id}] IN
    IF data # PgNull
    THEN IF t.kind = "fetchNext"
         THEN preloadEffect([rest EXCEPT !.page.movieData = data,
                                         !.page.error = NoError,
                                         !.page.loading = FALSE])
         ELSE [rest EXCEPT !.page.nextMovieData = data]
    ELSE IF t.round = 1
         THEN [rest EXCEPT !.tasks = @ \cup
                 {[t EXCEPT !.pc = "gap",
                            !.delays = Append(@, SilentRetryDelay)]}]
         ELSE IF t.kind = "fetchNext"
              THEN IF ~t.hadMovie
                   THEN [rest EXCEPT !.page.movieData = emptyMovie,
                                     !.page.loading = FALSE]
                   ELSE [rest EXCEPT !.page.loading = FALSE]
              ELSE rest

(* Mutant: a failure of a preload is surfaced like one of a foreground     *)
(* fetch                                                                   *)
ThrownSurfaced(st, t, silent) ==
    LET rest == [st EXCEPT !.tasks = {u \in @ : u.id # t.id}] IN
    IF ~silent
    THEN [rest EXCEPT !.page.error = MsgLoadFailed,
                      !.page.snackbar = [open |-> TRUE,
                                         message |-> MsgLoadFailed],
                      !.page.loading = FALSE]
    ELSE IF t.kind = "fetchNext" /\ ~t.hadMovie
         THEN [rest EXCEPT !.page.movieData = emptyMovie,
                           !.page.loading = FALSE]
         ELSE [rest EXCEPT !.page.loading = FALSE]

(* fetchMovieFromAPI threw to the caller t *)
Thrown(st, t, silent) ==
    LET rest == [st EXCEPT !.tasks = {u \in @ : u.id # t.id}] IN
    IF t.kind = "fetchNext"
    THEN IF ~silent
         THEN [rest EXCEPT !.page.error = MsgLoadFailed,
                           !.page.snackbar = [open |-> TRUE,
                                              message |-> MsgLoadFailed],
                           !.page.loading = FALSE]
         ELSE IF ~t.hadMovie
              THEN [rest EXCEPT !.page.movieData = emptyMovie,
                                !.page.loading = FALSE]
              ELSE [rest EXCEPT !.page.loading = FALSE]
    ELSE rest

(* Mutant: every retry waits the same second *)
RetryWaitConstant(currentRetry) == RetryDelayUnit

(* setTimeout(resolve, 1000 * currentRetry), after the increment *)
RetryWait(currentRetry) == RetryDelayUnit * currentRetry

(* Mutant: the retry bound is tested one attempt too late *)
ExhaustedLate(currentRetry) == currentRetry > maxRetries

(* if (currentRetry >= maxRetries) after the increment *)
Exhausted(currentRetry) == currentRetry >= maxRetries

(* One iteration of the while loop of fetchMovieFromAPI: the request of    *)
(* task t meets outcome o.                                                 *)
fetchMovieFromAPI(st, t, o) ==
    LET rest == [st EXCEPT !.tasks = {u \in @ : u.id # t.id}] IN
    IF o = "movie"
    THEN Returned(st, t, processMovieData(sourceNext))
    ELSE IF o = "transient"
    THEN IF Exhausted(t.currentRetry + 1)
         THEN Returned(st, [t EXCEPT !.currentRetry = @ + 1], PgNull)
         ELSE [rest EXCEPT !.tasks = @ \cup
                 {[t EXCEPT !.currentRetry = @ + 1,
                            !.pc = "backoff",
                            !.delays = Append(@,
                                          RetryWait(t.currentRetry + 1))]}]
    ELSE IF t.currentRetry >= maxRetries - 1
         THEN Thrown(st, [t EXCEPT !.onlyTransient = FALSE], o = "error34")
         ELSE [rest EXCEPT !.tasks = @ \cup
                 {[t EXCEPT !.currentRetry = @ + 1,
                            !.pc = "backoff",
                            !.onlyTransient = FALSE,
                            !.delays = Append(@,
                                          RetryWait(t.currentRetry + 1))]}]

(* The observer record: the step, and for the end of a task its kind, the  *)
(* requests it made, the waits between them and whether every answer was   *)
(* the transient one.                                                      *)
PgOp(name, t) ==
    [op |-> name, kind |-> t.kind, reqs |-> t.reqs, delays |-> t.delays,
     onlyTransient |-> t.onlyTransient]

NoTask == [kind |-> "none", reqs |-> 0, delays |-> <<>>,
           onlyTransient |-> FALSE]

PgInstall(st) ==
    /\ page' = st.page
    /\ tasks' = st.tasks
    /\ taskCount' = st.taskCount
    /\ st.taskCount <= MaxTasks

PgInit ==
    /\ page = [mounted |-> FALSE, movieData |-> PgNull,
               nextMovieData |-> PgNull, loading |-> TRUE,
               error |-> NoError, submitting |-> FALSE,
               snackbar |-> [open |-> FALSE, message |-> ""]]
    /\ user \in BOOLEAN
    /\ tasks = {}
    /\ taskCount = 0
    /\ ratingPosts = <<>>
    /\ sourceNext = 1
    /\ pageOp = PgOp("none", NoTask)

(* First render: the mount effect calls fetchNextMovie; the [movieData]    *)
(* effect finds no movie.                                                  *)
PageMount ==
    /\ ~page.mounted
    /\ PgInstall(preloadEffect(
           fetchNextMovie([PgCur EXCEPT !.page.mounted = TRUE], FALSE)))
    /\ pageOp' = PgOp("PageMount", NoTask)
    /\ UNCHANGED <<user, ratingPosts, sourceNext>>
    /\ UNCHANGED nonPgVars

(* The request of task t is answered *)
Respond(t, o) ==
    /\ t \in tasks
    /\ t.pc = "await"
    /\ LET done == [t EXCEPT !.onlyTransient = @ /\ o = "transient"]
       IN  /\ PgInstall(fetchMovieFromAPI(PgCur, t, o))
           /\ pageOp' = IF \E u \in tasks' : u.id = t.id
                         THEN PgOp("Respond", NoTask)
                         ELSE PgOp("TaskDone", done)
    /\ sourceNext' = IF o = "movie" THEN sourceNext + 1 ELSE sourceNext
    /\ UNCHANGED <<user, ratingPosts>>
    /\ UNCHANGED nonPgVars

(* A setTimeout of task t elapses: the next request is sent, in the same   *)
(* call of fetchMovieFromAPI or in the caller's second call.               *)
TimerFires(t) ==
    /\ t \in tasks
    /\ t.pc \in {"backoff", "gap"}
    /\ tasks' = (tasks \ {t}) \cup
         {IF t.pc = "gap"
          THEN [t EXCEPT !.pc = "await", !.round = 2, !.currentRetry = 0,
                         !.reqs = @ + 1, !.callReqs = 1]
          ELSE [t EXCEPT !.pc = "await", !.reqs = @ + 1,
                         !.callReqs = @ + 1]}
    /\ pageOp' = PgOp("TimerFires", NoTask)
    /\ UNCHANGED <<page, user, taskCount, ratingPosts, sourceNext>>
    /\ UNCHANGED nonPgVars

(* onSubmitRating = submitRating(selection) *)
submitRating(selection) ==
    /\ page.mounted
    /\ Len(ratingPosts) < MaxPosts
    /\ pageOp' = PgOp("submitRating", NoTask)
    /\ UNCHANGED nonPgVars
    /\ IF page.movieData = PgNull \/ page.movieData[1] = 0
       THEN /\ page' = [page EXCEPT !.snackbar =
                           [open |-> TRUE, message |-> MsgNoMovieId]]
            /\ UNCHANGED <<user, tasks, taskCount, ratingPosts, sourceNext>>
       ELSE IF ~user
       THEN /\ page' = [page EXCEPT !.snackbar =
                           [open |-> TRUE, message |-> MsgLogIn]]
            /\ UNCHANGED <<user, tasks, taskCount, ratingPosts, sourceNext>>
       ELSE LET movieToRate == page.movieData
                a == IF page.nextMovieData # PgNull
                     THEN preloadNextMovie(
                            [PgCur EXCEPT
                               !.page.movieData = page.nextMovieData,
                               !.page.nextMovieData = PgNull])
                     ELSE fetchNextMovie(PgCur, TRUE)
                b == [a EXCEPT !.page.submitting = TRUE]
                c == IF page.nextMovieData # PgNull
                     THEN preloadEffect(b)
                     ELSE b
            IN  /\ PgInstall(c)
                /\ ratingPosts' = Append(ratingPosts,
                      [movie_id |-> movieToRate[1],
                       rating |-> selectionToRating(selection)])
                /\ UNCHANGED <<user, sourceNext>>

(* Mutant: a failed rating POST is only logged *)
RatingDoneSilent(i, ok) ==
    /\ i \in 1..Len(ratingPosts)
    /\ ratingPosts' = RemoveAt(ratingPosts, i)
    /\ page' = [page EXCEPT !.submitting = FALSE]
    /\ pageOp' = PgOp(IF ok THEN "RatingOk" ELSE "RatingFailed", NoTask)
    /\ UNCHANGED <<user, tasks, taskCount, sourceNext>>
    /\ UNCHANGED nonPgVars

(* A rating POST completes: .then / .catch / .finally *)
RatingDone(i, ok) ==
    /\ i \in 1..Len(ratingPosts)
    /\ ratingPosts' = RemoveAt(ratingPosts, i)
    /\ page' = IF ok
               THEN [page EXCEPT !.submitting = FALSE]
               ELSE [page EXCEPT !.submitting = FALSE,
                                 !.snackbar = [open |-> TRUE,
                                               message |-> MsgRatingFailed]]
    /\ pageOp' = PgOp(IF ok THEN "RatingOk" ELSE "RatingFailed", NoTask)
    /\ UNCHANGED <<user, tasks, taskCount, sourceNext>>
    /\ UNCHANGED nonPgVars

(* The snackbar closes (auto-hide or the close button) *)
handleCloseSnackbar ==
    /\ page.snackbar.open
    /\ page' = [page EXCEPT !.snackbar.open = FALSE]
    /\ pageOp' = PgOp("handleCloseSnackbar", NoTask)
    /\ UNCHANGED <<user, tasks, taskCount, ratingPosts, sourceNext>>
    /\ UNCHANGED nonPgVars

PageNext ==
    \/ PageMount
    \/ \E t \in tasks : \E o \in Outcomes : Respond(t, o)
    \/ \E t \in tasks : TimerFires(t)
    \/ \E selection \in Ratings : submitRating(selection)
    \/ \E i \in 1..Len(ratingPosts) : \E ok \in BOOLEAN : RatingDone(i, ok)
    \/ handleCloseSnackbar

----------------------------------------------------------------------------
(* Part 3: the cookie-based AuthContext and ApiContext.  The session is a  *)
(* cookie; AuthProvider holds user and isAuthenticated, ApiProvider sends  *)
(* the requests of the application and hands every response to            *)
(* handleResponse.                                                         *)

MaxCalls == 3       \* login, checkAuthStatus and api requests in a session

UserId == 1
NoUser == NULL

MsgSessionExpired == "Your session has expired. Please log in again."
MsgRequestFailed == "Error: status statusText"
MsgNoUserData == "Login failed: No user data returned"

(* What a response of the backend can be: its status, or no response at    *)
(* all (fetch rejects), written as status 0.                               *)
NoResponse == 0

Statuses == {200, 401, 500, NoResponse}

(* Mutant: a 401 is treated like any other response that is not ok *)
handleResponseLenient(status) ==
    IF status = 200 THEN "data" ELSE "error"

(* handleResponse: a 401 awaits logout() and then throws; a response that  *)
(* is not ok throws; otherwise the parsed body is returned.                *)
handleResponse(status) ==
    IF status = 401 THEN "logout"
    ELSE IF status = 200 THEN "data"
    ELSE "error"

(* The observer record: the step, the status it met, how the request      *)
(* ended, and whether a user was signed in when the step was taken.        *)
AuOp(name, status, result) ==
    [op |-> name, status |-> status, result |-> result,
     signedIn |-> auth.user # NoUser]

AuInit ==
    /\ auth = [mounted |-> FALSE, user |-> NoUser, isAuthenticated |-> FALSE,
               loading |-> TRUE, error |-> NoError]
    /\ api = [loading |-> FALSE, error |-> NoError]
    /\ calls = {}
    /\ callCount = 0
    /\ authOp = AuOp("none", 0, "none")

NewCall(kind) == [id |-> callCount + 1, kind |-> kind, pc |-> "fetch"]

(* AuthProvider mounts: its effect calls checkAuthStatus, which sends      *)
(* GET /api/auth/me.                                                       *)
AuthMount ==
    /\ ~auth.mounted
    /\ callCount < MaxCalls
    /\ auth' = [auth EXCEPT !.mounted = TRUE, !.loading = TRUE]
    /\ calls' = calls \cup {NewCall("check")}
    /\ callCount' = callCount + 1
    /\ authOp' = AuOp("AuthMount", 0, "none")
    /\ UNCHANGED api
    /\ UNCHANGED nonAuVars

(* checkAuthStatus resumes: the body carries the user, or no user, or the  *)
(* request failed (AuthContext's apiRequest records the message).          *)
CheckDone(c, outcome) ==
    /\ c \in calls
    /\ c.kind = "check"
    /\ calls' = calls \ {c}
    /\ auth' = IF outcome = "user"
               THEN [auth EXCEPT !.user = UserId, !.isAuthenticated = TRUE,
                                 !.error = NoError, !.loading = FALSE]
               ELSE IF outcome = "nodata"
               THEN [auth EXCEPT !.user = NoUser, !.isAuthenticated = FALSE,
                                 !.loading = FALSE]
               ELSE [auth EXCEPT !.user = NoUser, !.isAuthenticated = FALSE,
                                 !.error = MsgRequestFailed,
                                 !.loading = FALSE]
    /\ authOp' = AuOp("CheckDone", 0, outcome)
    /\ UNCHANGED <<api, callCount>>
    /\ UNCHANGED nonAuVars

(* login(email, password) up to its await *)
login ==
    /\ auth.mounted
    /\ callCount < MaxCalls
    /\ auth' = [auth EXCEPT !.loading = TRUE, !.error = NoError]
    /\ calls' = calls \cup {NewCall("login")}
    /\ callCount' = callCount + 1
    /\ authOp' = AuOp("login", 0, "none")
    /\ UNCHANGED api
    /\ UNCHANGED nonAuVars

(* login resumes *)
LoginDone(c, outcome) ==
    /\ c \in calls
    /\ c.kind = "login"
    /\ calls' = calls \ {c}
    /\ auth' = IF outcome = "user"
               THEN [auth EXCEPT !.user = UserId, !.isAuthenticated = TRUE,
                                 !.loading = FALSE]
               ELSE IF outcome = "nodata"
               THEN [auth EXCEPT !.error = MsgNoUserData, !.loading = FALSE]
               ELSE [auth EXCEPT !.error = MsgRequestFailed,
                                 !.loading = FALSE]
    /\ authOp' = AuOp("LoginDone", 0, outcome)
    /\ UNCHANGED <<api, callCount>>
    /\ UNCHANGED nonAuVars

(* ApiContext's apiRequest (apiGet, apiPost, apiPut, apiDelete) up to its  *)
(* await of fetch                                                          *)
apiRequest ==
    /\ auth.mounted
    /\ callCount < MaxCalls
    /\ api' = [api EXCEPT !.loading = TRUE, !.error = NoError]
    /\ calls' = calls \cup {NewCall("request")}
    /\ callCount' = callCount + 1
    /\ authOp' = AuOp("apiRequest", 0, "none")
    /\ UNCHANGED auth
    /\ UNCHANGED nonAuVars

(* The response of an api request arrives and handleResponse runs: on 401  *)
(* it calls logout(), which sets loading and sends POST /api/auth/logout,  *)
(* and waits for it; otherwise apiRequest returns the data or records the  *)
(* error and rethrows.                                                     *)
Response(c, status) ==
    /\ c \in calls
    /\ c.kind = "request"
    /\ c.pc = "fetch"
    /\ LET todo == IF status = NoResponse
                   THEN "error"
                   ELSE handleResponse(status)
       IN  IF todo = "logout"
           THEN /\ calls' = (calls \ {c}) \cup {[c EXCEPT !.pc = "logout"]}
                /\ auth' = [auth EXCEPT !.loading = TRUE]
                /\ authOp' = AuOp("Response", status, "logout")
                /\ UNCHANGED api
           ELSE /\ calls' = calls \ {c}
                /\ api' = IF todo = "data"
                          THEN [api EXCEPT !.loading = FALSE]
                          ELSE [api EXCEPT !.loading = FALSE,
                                           !.error = MsgRequestFailed]
                /\ authOp' = AuOp("RequestDone", status,
                                  IF todo = "data" THEN "resolved"
                                  ELSE "rejected")
                /\ UNCHANGED auth
    /\ UNCHANGED callCount
    /\ UNCHANGED nonAuVars

(* The logout() awaited by handleResponse resumes: the user state is       *)
(* cleared whether or not the logout request succeeded; handleResponse     *)
(* then throws and apiRequest records the message and rethrows.            *)
LogoutDone(c, ok) ==
    /\ c \in calls
    /\ c.kind = "request"
    /\ c.pc = "logout"
    /\ calls' = calls \ {c}
    /\ auth' = IF ok
               THEN [auth EXCEPT !.user = NoUser, !.isAuthenticated = FALSE,
                                 !.error = NoError, !.loading = FALSE]
               ELSE [auth EXCEPT !.user = NoUser, !.isAuthenticated = FALSE,
                                 !.error = MsgRequestFailed,
                                 !.loading = FALSE]
    /\ api' = [api EXCEPT !.loading = FALSE, !.error = MsgSessionExpired]
    /\ authOp' = AuOp("RequestDone", 401, "rejected")
    /\ UNCHANGED callCount
    /\ UNCHANGED nonAuVars

AuthNext ==
    \/ AuthMount
    \/ \E c \in calls : \E o \in {"user", "nodata", "fail"} : CheckDone(c, o)
    \/ login
    \/ \E c \in calls : \E o \in {"user", "nodata", "fail"} : LoginDone(c, o)
    \/ apiRequest
    \/ \E c \in calls : \E status \in Statuses : Response(c, status)
    \/ \E c \in calls : \E ok \in BOOLEAN : LogoutDone(c, ok)

----------------------------------------------------------------------------
(* Part 4: calculateCompatibility.  JavaScript numbers are IEEE 754        *)
(* doubles: a / b and a * b are the exact results rounded to 53            *)
(* significant bits, ties to even.  A positive double is the record        *)
(* [m, e]: m its significant bits, most significant first and starting     *)
(* with 1, e the binary exponent of the last bit; zero has m = <<>>.       *)

MantissaBits == 53

NoRating == -1      \* user1_rating / user2_rating === null
NotComputed == -1   \* nothing rendered yet

LimbBits == 18      \* integers are handled 18 bits at a time

(* The w-bit binary numeral of q < 2^w *)
ChunkBits(q, w) == [i \in 1..w |-> (q \div 2^(w - i)) % 2]

(* The number of bits of q < 2^30 *)
BitLength(q) == CHOOSE w \in 0..30 : q < 2^w /\ (w = 0 \/ q >= 2^(w - 1))

(* The binary numeral of q, without leading zeros *)
BitsOf(q) == ChunkBits(q, BitLength(q))

(* The value of a numeral of at most 30 bits *)
RECURSIVE ValueOf(_)
ValueOf(bits) ==
    IF bits = <<>> THEN 0
    ELSE 2 * ValueOf(SubSeq(bits, 1, Len(bits) - 1)) + bits[Len(bits)]

(* bits + 1; the result is one bit longer when every bit was 1 *)
Increment(bits) ==
    LET zeros == {i \in 1..Len(bits) : bits[i] = 0} IN
    IF zeros = {}
    THEN <<1>> \o [i \in 1..Len(bits) |-> 0]
    ELSE LET p == CHOOSE i \in zeros : \A j \in zeros : j <= i
         IN  [i \in 1..Len(bits) |->
                 IF i < p THEN bits[i] ELSE IF i = p THEN 1 ELSE 0]

(* The exact value bits * 2^e, plus something below its last bit when      *)
(* sticky, rounded to a double: round to nearest, ties to even.            *)
RoundNearestEven(bits, e, sticky) ==
    IF Len(bits) <= MantissaBits
    THEN [m |-> bits, e |-> e]
    ELSE LET kept == SubSeq(bits, 1, MantissaBits)
             guard == bits[MantissaBits + 1]
             rest == sticky \/ \E i \in (MantissaBits + 2)..Len(bits) :
                                  bits[i] = 1
             up == guard = 1 /\ (rest \/ kept[MantissaBits] = 1)
             m0 == IF up THEN Increment(kept) ELSE kept
             e0 == e + (Len(bits) - MantissaBits)
         IN  IF Len(m0) > MantissaBits
             THEN [m |-> SubSeq(m0, 1, MantissaBits), e |-> e0 + 1]
             ELSE [m |-> m0, e |-> e0]

(* Long division: the first MantissaBits + 1 = 1 + 18 + 18 + 17 bits of    *)
(* r / n for n <= r < 2 * n < 2^13, and the remainder left.                *)
LongDiv(r, n) ==
    LET r1 == r - n
        q1 == (r1 * 2^LimbBits) \div n
        r2 == (r1 * 2^LimbBits) % n
        q2 == (r2 * 2^LimbBits) \div n
        r3 == (r2 * 2^LimbBits) % n
        q3 == (r3 * 2^(LimbBits - 1)) \div n
        r4 == (r3 * 2^(LimbBits - 1)) % n
    IN  [bits |-> <<1>> \o ChunkBits(q1, LimbBits) \o ChunkBits(q2, LimbBits)
                       \o ChunkBits(q3, LimbBits - 1),
         rem |-> r4]

(* The least k with c * 2^k >= n, and c * 2^k *)
RECURSIVE Normalise(_, _, _)
Normalise(c, n, k) ==
    IF c >= n THEN [r |-> c, k |-> k] ELSE Normalise(2 * c, n, k + 1)

(* c / n in doubles, for integers 0 <= c <= n, 0 < n < 2^12 *)
DoubleDivide(c, n) ==
    IF c = 0 THEN [m |-> <<>>, e |-> 0]
    ELSE LET nz == Normalise(c, n, 0)
             q == LongDiv(nz.r, n)
         IN  RoundNearestEven(q.bits, 0 - nz.k - MantissaBits, q.rem # 0)

(* bits * f exactly, for a mantissa of MantissaBits bits and an integer    *)
(* 0 < f < 2^7, three limbs at a time                                      *)
MulSmall(bits, f) ==
    LET L == Len(bits)
        lo == ValueOf(SubSeq(bits, L - LimbBits + 1, L))
        mid == ValueOf(SubSeq(bits, L - 2 * LimbBits + 1, L - LimbBits))
        hi == ValueOf(SubSeq(bits, 1, L - 2 * LimbBits))
        p0 == lo * f
        p1 == mid * f + (p0 \div 2^LimbBits)
        p2 == hi * f + (p1 \div 2^LimbBits)
    IN  BitsOf(p2) \o ChunkBits(p1 % 2^LimbBits, LimbBits)
                   \o ChunkBits(p0 % 2^LimbBits, LimbBits)

(* d * f in doubles, f an integer 0 < f < 2^7 *)
DoubleTimes(d, f) ==
    IF d.m = <<>> THEN d ELSE RoundNearestEven(MulSmall(d.m, f), d.e, FALSE)

(* Math.round of a double 0 <= d < 2^30: the nearest integer, a half       *)
(* rounds up.                                                              *)
MathRound(d) ==
    IF d.m = <<>> THEN 0
    ELSE IF d.e >= 0 THEN ValueOf(d.m) * 2^d.e
    ELSE LET intLen == Len(d.m) + d.e
         IN  IF intLen < 0 THEN 0
             ELSE IF intLen = 0 THEN 1
             ELSE ValueOf(SubSeq(d.m, 1, intLen)) + d.m[intLen + 1]

(* pref.userN_rating || 0 *)
OrZero(rating) == IF rating = NoRating \/ rating = 0 THEN 0 ELSE rating

Abs(x) == IF x < 0 THEN 0 - x ELSE x

BothRated(pref) ==
    pref.user1_rating # NoRating /\ pref.user2_rating # NoRating

WithinOne(pref) ==
    Abs(OrZero(pref.user1_rating) - OrZero(pref.user2_rating)) <= 1

calculateCompatibility(prefs) ==
    IF Len(prefs) = 0 THEN 0
    ELSE LET sharedMovies == SelectSeq(prefs, BothRated) IN
         IF Len(sharedMovies) = 0 THEN 0
         ELSE LET compatibleMovies == SelectSeq(sharedMovies, WithinOne)
              IN  MathRound(DoubleTimes(
                      DoubleDivide(Len(compatibleMovies), Len(sharedMovies)),
                      100))

(* The inputs: every list of up to MaxPrefs preferences over RatingValues, *)
(* and lists of up to MaxShared both-rated movies, the first c of them     *)
(* rated within one point, followed by up to one movie a single user       *)
(* rated.  movie_id and ratingDate are not read by the function and are    *)
(* left out.                                                               *)
MaxPrefs == 2
MaxShared == 40

RatingValues == {NoRating, 1, 2, 3, 5}

Pref(r1, r2) == [user1_rating |-> r1, user2_rating |-> r2]

AllPrefs == {Pref(r1, r2) : r1, r2 \in RatingValues}

ShortLists == UNION {[1..n -> AllPrefs] : n \in 0..MaxPrefs}

Block(c, d, u) ==
    [i \in 1..(c + d + u) |->
        IF i <= c THEN Pref(1 + (i % 3), 1 + (i % 3) + (i % 2))
        ELSE IF i <= c + d THEN Pref(5, 1 + (i % 3))
        ELSE Pref(NoRating, 3)]

BlockLists ==
    {Block(c, d, u) : c \in 0..MaxShared, d \in 0..MaxShared, u \in 0..1}

CmIdle ==
    /\ combinedPreferences = <<>>
    /\ compatibility = NotComputed

(* setCombinedPreferences(data) has installed the list the backend sent    *)
CmInit ==
    /\ combinedPreferences \in
           ShortLists \cup {l \in BlockLists : Len(l) <= MaxShared + 1}
    /\ compatibility = NotComputed

(* The render evaluates calculateCompatibility() and shows the result      *)
Render ==
    /\ compatibility = NotComputed
    /\ compatibility' = calculateCompatibility(combinedPreferences)
    /\ UNCHANGED combinedPreferences
    /\ UNCHANGED nonCmVars

CompatNext == Render

----------------------------------------------------------------------------
(* Part 5: the single-fetch MovieExplorer variant.  GET /movies returns    *)
(* one movie; fetchMovie turns a failure into null.  A movie is modelled   *)
(* by the number of the request that returned it, so that the order of     *)
(* issue can be read off the identifiers.  Handlers run in the latest      *)
(* render, whose values are those of the state.                            *)

QUEUE_SIZE == 3

MaxBatches == 4     \* groups of fetchMovie calls started in a session

Pending == -1

(* A group of n fetchMovie calls issued together by the given caller *)
IssueBatch(st, kind, n) ==
    [st EXCEPT !.batchCount = @ + 1,
               !.issued = @ + n,
               !.batches = @ \cup {[id |-> st.batchCount + 1, kind |-> kind,
                                    first |-> st.issued + 1,
                                    results |-> [i \in 1..n |-> Pending]]}]

(* movies.filter(movie => movie !== null) *)
RECURSIVE validMovies(_)
validMovies(movies) ==
    IF movies = <<>> THEN <<>>
    ELSE IF movies[1] = NULL THEN validMovies(Tail(movies))
    ELSE <<movies[1]>> \o validMovies(Tail(movies))

(* replenishQueue up to its await *)
sxReplenishQueue(st) ==
    IF Len(st.explorer.movieQueue) < QUEUE_SIZE
    THEN IssueBatch(st, "replenish",
                    QUEUE_SIZE - Len(st.explorer.movieQueue))
    ELSE st

(* replenishQueue after its await; isMounted is a local that stays true *)
sxReplenishQueueResume(st, movies) ==
    IF Len(validMovies(movies)) > 0
    THEN [st EXCEPT !.explorer.movieQueue = @ \o validMovies(movies)]
    ELSE st

(* initialize up to its await *)
sxInitialize(st) ==
    IssueBatch([st EXCEPT !.explorer.loadingMovie = TRUE,
                          !.explorer.error = NoError],
               "init", QUEUE_SIZE + 1)

(* initialize after its await *)
sxInitializeResume(st, movies) ==
    LET valid == validMovies(movies)
        a == IF Len(valid) > 0
             THEN LET b == [st EXCEPT !.explorer.currentMovie = valid[1]]
                  IN  IF Len(valid) > 1
                      THEN [b EXCEPT !.explorer.movieQueue = Tail(valid)]
                      ELSE b
             ELSE [st EXCEPT !.explorer.error = ErrFetchMovies]
    IN  [a EXCEPT !.explorer.loadingMovie = FALSE]

(* moveToNextMovie *)
sxMoveToNextMovie(st) ==
    IF Len(st.explorer.movieQueue) > 0
    THEN [st EXCEPT !.explorer.currentMovie = st.explorer.movieQueue[1],
                    !.explorer.movieQueue = Tail(@)]
    ELSE IssueBatch([st EXCEPT !.explorer.loadingMovie = TRUE], "single", 1)

(* the .then callback of moveToNextMovie's fetchMovie() *)
sxMoveToNextMovieResume(st, movies) ==
    IF movies[1] # NULL
    THEN [st EXCEPT !.explorer.currentMovie = movies[1],
                    !.explorer.loadingMovie = FALSE]
    ELSE [st EXCEPT !.explorer.error = ErrFetchMovie,
                    !.explorer.loadingMovie = FALSE]

(* The queue-size effect, with dependencies loadingMovie,                  *)
(* movieQueue.length and replenishQueue (which changes with                *)
(* movieQueue.length), after a handler turned render prev into st.         *)
sxEffects(prev, st) ==
    IF /\ \/ prev.explorer.loadingMovie # st.explorer.loadingMovie
          \/ Len(prev.explorer.movieQueue) # Len(st.explorer.movieQueue)
       /\ ~st.explorer.loadingMovie
       /\ Len(st.explorer.movieQueue) < QUEUE_SIZE
    THEN sxReplenishQueue(st)
    ELSE st

(* The effects of the first render, in declaration order.  The queue-size  *)
(* effect reads the loadingMovie of that render, which is still false.     *)
sxMountEffects(r) ==
    LET a == sxInitialize(r)
    IN  IF ~r.explorer.loadingMovie
           /\ Len(r.explorer.movieQueue) < QUEUE_SIZE
        THEN sxReplenishQueue(a)
        ELSE a

SxCur == [explorer |-> explorer, batches |-> batches,
          batchCount |-> batchCount, issued |-> issued]

SxInstall(st) ==
    /\ explorer' = st.explorer
    /\ batches' = st.batches
    /\ batchCount' = st.batchCount
    /\ issued' = st.issued
    /\ st.batchCount <= MaxBatches

SxView ==
    IF explorer.loadingMovie THEN "Loading"
    ELSE IF explorer.error # NoError THEN "Error"
    ELSE IF explorer.currentMovie = NULL THEN "Empty"
    ELSE "Ready"

(* The observer record: the step, the caller whose group of requests       *)
(* completed, the results of that group in issue order, and the movie a    *)
(* rating was sent for.                                                    *)
SxOp(name, kind, movies, rated) ==
    [op |-> name, kind |-> kind, movies |-> movies, rated |-> rated]

SxInit ==
    /\ explorer = [mounted |-> FALSE, currentMovie |-> NULL,
                   movieQueue |-> <<>>, loadingMovie |-> FALSE,
                   error |-> NoError]
    /\ batches = {}
    /\ batchCount = 0
    /\ issued = 0
    /\ explorerOp = SxOp("none", "none", <<>>, NULL)

(* First render and its effects *)
SxMount ==
    /\ ~explorer.mounted
    /\ SxInstall(sxMountEffects([SxCur EXCEPT !.explorer.mounted = TRUE]))
    /\ explorerOp' = SxOp("Mount", "none", <<>>, NULL)
    /\ UNCHANGED nonSxVars

(* The Skip button: onClick = moveToNextMovie; rendered in every view *)
SxSkip ==
    /\ explorer.mounted
    /\ SxInstall(sxEffects(SxCur, sxMoveToNextMovie(SxCur)))
    /\ explorerOp' = SxOp("Skip", "none", <<>>, NULL)
    /\ UNCHANGED nonSxVars

(* A rating button, rendered in the Ready view only: handleRating up to    *)
(* its await.  The completion of the rating write only logs.               *)
sxHandleRating(rating) ==
    /\ explorer.mounted
    /\ SxView = "Ready"
    /\ SxInstall(sxEffects(SxCur, sxMoveToNextMovie(SxCur)))
    /\ explorerOp' = SxOp("Rate", rating, <<numericRating(rating)>>,
                          explorer.currentMovie)
    /\ UNCHANGED nonSxVars

(* The continuation of the caller whose Promise.all (or single promise)    *)
(* resolved with movies                                                    *)
SxResume(st, kind, movies) ==
    IF kind = "init" THEN sxInitializeResume(st, movies)
    ELSE IF kind = "replenish" THEN sxReplenishQueueResume(st, movies)
    ELSE sxMoveToNextMovieResume(st, movies)

(* Request i of group b is answered, with a movie or with a failure that   *)
(* fetchMovie turns into null.  Promise.all resolves when the last request *)
(* of the group is answered; then the caller resumes with the results in   *)
(* the order of issue, and the render and its effect follow.               *)
SxFetchDone(b, i, ok) ==
    /\ b \in batches
    /\ i \in 1..Len(b.results)
    /\ b.results[i] = Pending
    /\ LET movies == [b.results EXCEPT ![i] = IF ok THEN b.first + i - 1
                                              ELSE NULL]
           rest == [SxCur EXCEPT !.batches = @ \ {b}]
       IN  IF \E j \in 1..Len(movies) : movies[j] = Pending
           THEN /\ SxInstall([rest EXCEPT !.batches =
                                 @ \cup {[b EXCEPT !.results = movies]}])
                /\ explorerOp' = SxOp("FetchDone", b.kind, <<>>, NULL)
           ELSE /\ SxInstall(sxEffects(SxCur, SxResume(rest, b.kind, movies)))
                /\ explorerOp' = SxOp("BatchDone", b.kind, movies, NULL)
    /\ UNCHANGED nonSxVars

QueueNext ==
    \/ SxMount
    \/ SxSkip
    \/ \E rating \in Ratings : sxHandleRating(rating)
    \/ \E b \in batches : \E i \in 1..Len(b.results) : \E ok \in BOOLEAN :
          SxFetchDone(b, i, ok)

----------------------------------------------------------------------------
(* Part 6: the token-based AuthProvider.  The session is a bearer token    *)
(* kept in a useState cell and in localStorage; isAuthenticated is         *)
(* !!currentUser.  A token is modelled by a number: the stored one is 1,   *)
(* the one returned by the n-th request is n + 1.                          *)

MaxRequests == 5    \* fetch calls of the AuthProvider in a session

NoToken == NULL
StoredTokenValue == 1

TkCur == [session |-> session, storedToken |-> storedToken,
          requests |-> requests, requestCount |-> requestCount]

(* A fetch call starts *)
TkIssue(st, kind, token) ==
    [st EXCEPT !.requestCount = @ + 1,
               !.requests = @ \cup {[id |-> st.requestCount + 1,
                                     kind |-> kind, token |-> token]}]

isAuthenticated(s) == s.currentUser # NoUser

(* logout *)
logout(st) ==
    [st EXCEPT !.session.currentUser = NoUser,
               !.session.token = NoToken,
               !.storedToken = NoToken]

(* checkLoggedIn up to its await, with the token of the render it belongs  *)
(* to                                                                      *)
checkLoggedIn(st) ==
    IF st.session.token # NoToken
    THEN TkIssue(st, "check", st.session.token)
    ELSE [st EXCEPT !.session.loading = FALSE]

(* checkLoggedIn after its await; ok: fetchUserData returned the user *)
checkLoggedInResume(st, ok) ==
    LET a == IF ok
             THEN [st EXCEPT !.session.currentUser = UserId]
             ELSE logout(st)
    IN  [a EXCEPT !.session.loading = FALSE]

(* login after its POST /token: the token is saved and fetchUserData       *)
(* called with it                                                          *)
loginTokenResume(st, r, ok) ==
    IF ok
    THEN TkIssue([st EXCEPT !.session.token = r.id + 1,
                            !.storedToken = r.id + 1],
                 "user", r.id + 1)
    ELSE st

(* login after its fetchUserData *)
loginUserResume(st, ok) ==
    IF ok THEN [st EXCEPT !.session.currentUser = UserId] ELSE st

(* register after its POST /register: a 201 logs in *)
registerResume(st, created) ==
    IF created THEN TkIssue(st, "token", NoToken) ELSE st

(* The effect with dependency [token], after a handler turned render prev  *)
(* into st                                                                 *)
TkEffects(prev, st) ==
    IF prev.session.token # st.session.token THEN checkLoggedIn(st) ELSE st

TkInstall(st) ==
    /\ session' = st.session
    /\ storedToken' = st.storedToken
    /\ requests' = st.requests
    /\ requestCount' = st.requestCount
    /\ st.requestCount <= MaxRequests

(* The observer record: the step, and whether the request that completed   *)
(* succeeded                                                               *)
TkOp(name, ok) == [op |-> name, ok |-> ok]

TkInit ==
    /\ storedToken \in {NoToken, StoredTokenValue}
    /\ session = [mounted |-> FALSE, currentUser |-> NoUser,
                  token |-> storedToken, loading |-> TRUE]
    /\ requests = {}
    /\ requestCount = 0
    /\ sessionOp = TkOp("none", FALSE)

(* First render: the [token] effect runs *)
TkMount ==
    /\ ~session.mounted
    /\ TkInstall(checkLoggedIn([TkCur EXCEPT !.session.mounted = TRUE]))
    /\ sessionOp' = TkOp("Mount", FALSE)
    /\ UNCHANGED nonTkVars

(* The login form of a signed-out visitor: login up to its POST /token.    *)
(* The children of the provider are rendered once loading is false.        *)
TkLogin ==
    /\ session.mounted
    /\ ~session.loading
    /\ ~isAuthenticated(session)
    /\ TkInstall(TkIssue(TkCur, "token", NoToken))
    /\ sessionOp' = TkOp("login", FALSE)
    /\ UNCHANGED nonTkVars

(* The registration form: register up to its POST /register *)
TkRegister ==
    /\ session.mounted
    /\ ~session.loading
    /\ ~isAuthenticated(session)
    /\ TkInstall(TkIssue(TkCur, "register", NoToken))
    /\ sessionOp' = TkOp("register", FALSE)
    /\ UNCHANGED nonTkVars

(* The Logout item of the Navbar, shown to an authenticated user *)
TkLogout ==
    /\ session.mounted
    /\ ~session.loading
    /\ isAuthenticated(session)
    /\ TkInstall(TkEffects(TkCur, logout(TkCur)))
    /\ sessionOp' = TkOp("logout", FALSE)
    /\ UNCHANGED nonTkVars

(* The continuation the answer to request r resumes *)
TkResume(st, r, ok) ==
    IF r.kind = "check" THEN checkLoggedInResume(st, ok)
    ELSE IF r.kind = "token" THEN loginTokenResume(st, r, ok)
    ELSE IF r.kind = "user" THEN loginUserResume(st, ok)
    ELSE registerResume(st, ok)

(* Request r is answered; ok: the response the caller hopes for (the user  *)
(* data, the token, 201 Created).  The caller resumes, and the render and  *)
(* its effect follow.                                                      *)
TkAnswer(r, ok) ==
    /\ r \in requests
    /\ LET rest == [TkCur EXCEPT !.requests = @ \ {r}]
       IN  TkInstall(TkEffects(TkCur, TkResume(rest, r, ok)))
    /\ sessionOp' = TkOp(r.kind, ok)
    /\ UNCHANGED nonTkVars

TokenNext ==
    \/ TkMount
    \/ TkLogin
    \/ TkRegister
    \/ TkLogout
    \/ \E r \in requests : \E ok \in BOOLEAN : TkAnswer(r, ok)

----------------------------------------------------------------------------
(* Part 7: the oldest App variant.  One movie is shown (movieData) and one *)
(* is preloaded (nextMovieData); a rating is written with a POST that      *)
(* submitRating awaits.  A movie is <<id, n>>: n is the call that fetched  *)
(* it and tells the objects apart, id is n or, for data without an id, 0.  *)
(* A call of fetchMovieFromAPI is one call in flight: its retries touch no *)
(* state of the component, and it ends by returning a movie or throwing.   *)

MaxAppCalls == 5    \* calls of the oldest App variant in a session

AppNull == <<>>

AppMsgNoMovieId == "Cannot submit rating: Movie ID not available"
AppMsgRatingFailed == "Failed to submit rating. Please try again."
AppMsgLoadFailed == "Failed to load next movie. Please try again later."

AppCur == [app |-> app, appCalls |-> appCalls, appCount |-> appCount]

AppIssue(st, c) ==
    [st EXCEPT !.appCount = @ + 1,
               !.appCalls = @ \cup {[id |-> st.appCount + 1] @@ c}]

AppShow(st, msg) == [st EXCEPT !.app.snackbar = [open |-> TRUE, message |-> msg]]

(* fetchNextMovie up to its await; after: the caller *)
appFetchNextMovie(st, after) ==
    AppIssue([st EXCEPT !.app.loading = TRUE],
             [kind |-> "fetchNext", after |-> after,
              movie |-> AppNull, next |-> AppNull])

(* fetchNextMovie after its await; data: the movie, or <<>> when           *)
(* fetchMovieFromAPI threw                                                 *)
appFetchNextMovieResume(st, data) ==
    LET a == IF data # AppNull
             THEN [st EXCEPT !.app.movieData = data, !.app.error = "null"]
             ELSE AppShow([st EXCEPT !.app.error = AppMsgLoadFailed],
                          AppMsgLoadFailed)
    IN  [a EXCEPT !.app.loading = FALSE]

(* preloadNextMovie up to its await *)
appPreloadNextMovie(st) ==
    AppIssue(st, [kind |-> "preload", after |-> "preload",
                  movie |-> AppNull, next |-> AppNull])

(* preloadNextMovie after its await *)
appPreloadNextMovieResume(st, data) ==
    IF data # AppNull THEN [st EXCEPT !.app.nextMovieData = data] ELSE st

(* A mutant of submitRatingResume: the response is not looked at *)
appSubmitRatingResumeUnchecked(st, c, ok) ==
    LET a == IF c.next # AppNull
             THEN appPreloadNextMovie(
                      [st EXCEPT !.app.movieData = c.next,
                                 !.app.nextMovieData = AppNull,
                                 !.app.loading = FALSE])
             ELSE appFetchNextMovie(st, "rating")
    IN  [a EXCEPT !.app.submitting = FALSE]

(* submitRating after its POST; c.next is the nextMovieData of the render  *)
(* the handler belongs to; ok: the fetch resolved with response.ok         *)
appSubmitRatingResume(st, c, ok) ==
    LET a == IF ok
             THEN IF c.next # AppNull
                  THEN appPreloadNextMovie(
                           [st EXCEPT !.app.movieData = c.next,
                                      !.app.nextMovieData = AppNull,
                                      !.app.loading = FALSE])
                  ELSE appFetchNextMovie(st, "rating")
             ELSE AppShow(st, AppMsgRatingFailed)
    IN  [a EXCEPT !.app.submitting = FALSE]

(* The effect with dependency [movieData], after a handler turned render   *)
(* prev into st                                                            *)
appPreloadEffect(prev, st) ==
    IF /\ prev.app.movieData # st.app.movieData
       /\ st.app.movieData # AppNull
       /\ st.app.movieData[1] # 0
       /\ st.app.nextMovieData = AppNull
    THEN appPreloadNextMovie(st)
    ELSE st

AppInstall(st) ==
    /\ app' = st.app
    /\ appCalls' = st.appCalls
    /\ appCount' = st.appCount
    /\ st.appCount <= MaxAppCalls

(* The observer record: the step, the caller of a fetchNextMovie that      *)
(* ended, and whether the call succeeded                                   *)
AppOp(name, after, ok) == [op |-> name, after |-> after, ok |-> ok]

AppInit ==
    /\ app = [mounted |-> FALSE, movieData |-> AppNull,
              nextMovieData |-> AppNull, loading |-> TRUE, error |-> "null",
              submitting |-> FALSE,
              snackbar |-> [open |-> FALSE, message |-> ""]]
    /\ appCalls = {}
    /\ appCount = 0
    /\ appOp = AppOp("none", "none", FALSE)

(* First render: the mount effect calls fetchNextMovie; the [movieData]    *)
(* effect finds no movie.                                                  *)
AppMount ==
    /\ ~app.mounted
    /\ AppInstall(appFetchNextMovie([AppCur EXCEPT !.app.mounted = TRUE],
                                    "mount"))
    /\ appOp' = AppOp("Mount", "none", FALSE)
    /\ UNCHANGED nonApVars

(* A rating button of the MovieCard, which shows them when it is given     *)
(* neither loading nor an error: submitRating up to its await              *)
appSubmitRating ==
    /\ app.mounted
    /\ ~app.loading
    /\ app.error = "null"
    /\ IF app.movieData = AppNull \/ app.movieData[1] = 0
       THEN AppInstall(AppShow(AppCur, AppMsgNoMovieId))
       ELSE AppInstall(AppIssue([AppCur EXCEPT !.app.submitting = TRUE],
                                [kind |-> "rating", after |-> "rating",
                                 movie |-> app.movieData,
                                 next |-> app.nextMovieData]))
    /\ appOp' = AppOp("submitRating", "none", FALSE)
    /\ UNCHANGED nonApVars

(* The snackbar is closed, by the user or after autoHideDuration *)
appHandleCloseSnackbar ==
    /\ app.snackbar.open
    /\ AppInstall([AppCur EXCEPT !.app.snackbar.open = FALSE])
    /\ appOp' = AppOp("closeSnackbar", "none", FALSE)
    /\ UNCHANGED nonApVars

(* What a call of fetchMovieFromAPI numbered n can end with: a movie, a    *)
(* movie without id, or nothing (it threw)                                 *)
AppData(n) == {<<n, n>>, <<0, n>>, AppNull}

(* The continuation the end of call c resumes *)
AppResume(st, c, data) ==
    IF c.kind = "fetchNext" THEN appFetchNextMovieResume(st, data)
    ELSE IF c.kind = "preload" THEN appPreloadNextMovieResume(st, data)
    ELSE appSubmitRatingResume(st, c, data # AppNull)

(* Call c ends; for a rating POST data # <<>> stands for response.ok.  The *)
(* caller resumes, and the render and its effect follow.                   *)
AppCallDone(c, data) ==
    /\ c \in appCalls
    /\ c.kind = "rating" => data # <<0, c.id>>
    /\ LET rest == [AppCur EXCEPT !.appCalls = @ \ {c}]
       IN  AppInstall(appPreloadEffect(AppCur, AppResume(rest, c, data)))
    /\ appOp' = AppOp(c.kind, c.after, data # AppNull)
    /\ UNCHANGED nonApVars

AppNext ==
    \/ AppMount
    \/ appSubmitRating
    \/ appHandleCloseSnackbar
    \/ \E c \in appCalls : \E data \in AppData(c.id) : AppCallDone(c, data)

----------------------------------------------------------------------------
(* Specifications *)

(* The MovieExplorer runs; the page of Part 2 is not mounted *)
Idle ==
    /\ ExInit /\ PgInit /\ AuInit /\ CmIdle /\ SxInit /\ TkInit /\ AppInit
    /\ user = TRUE

Init == Idle /\ storedToken = NoToken

Spec == Init /\ [][Next]_vars

(* The requests in flight are eventually answered; the user is free to    *)
(* act or not.                                                             *)
Completion ==
    \/ \E f \in fetches : \E resp \in Responses(f) : FetchDone(f, resp)
    \/ \E i \in 1..Len(posts) : \E ok \in BOOLEAN : PostDone(i, ok)

LiveSpec == Init /\ [][Next]_vars /\ WF_vars(Completion)

(* The MovieExplorer runs, the user only skips (a rating advances through  *)
(* the same moveToNextMovie), and every GET /movies request is eventually  *)
(* answered.                                                               *)
Answered(id) ==
    \E f \in fetches : \E resp \in Responses(f) :
        f.id = id /\ FetchDone(f, resp)

BrowseNext ==
    \/ Mount
    \/ Skip
    \/ \E f \in fetches : \E resp \in Responses(f) : FetchDone(f, resp)

FairSpec ==
    /\ Init
    /\ [][BrowseNext]_vars
    /\ \A id \in 1..MaxFetches : WF_vars(Answered(id))

(* The life of the MovieExplorer view from mount to unmount and the        *)
(* completion of the requests it leaves behind; the user only skips.       *)
LifeNext ==
    \/ Mount
    \/ Skip
    \/ Unmount
    \/ \E f \in fetches : \E resp \in Responses(f) : FetchDone(f, resp)

LifeSpec == Init /\ [][LifeNext]_vars

(* The MovieExplorer runs and the handleRating of the render on screen is  *)
(* called whatever that render shows, as by a caller that holds the        *)
(* handler rather than a rating button.                                    *)
HandlerNext ==
    \/ Mount
    \/ Skip
    \/ \E rating \in Ratings : handleRatingCall(rating)
    \/ \E f \in fetches : \E resp \in Responses(f) : FetchDone(f, resp)
    \/ \E i \in 1..Len(posts) : \E ok \in BOOLEAN : PostDone(i, ok)

HandlerSpec == Init /\ [][HandlerNext]_vars

(* The MovieRatingPage runs; the explorer of Part 1 is not mounted *)
PageInit ==
    /\ ExInit /\ PgInit /\ AuInit /\ CmIdle /\ SxInit /\ TkInit /\ AppInit
    /\ storedToken = NoToken

PageSpec == PageInit /\ [][PageNext]_vars

(* AuthProvider and ApiProvider run; no movie view is mounted *)
AuthSpec == Init /\ [][AuthNext]_vars

(* FriendMovieComparison renders the score of the list it was sent *)
CompatInit ==
    /\ ExInit /\ PgInit /\ AuInit /\ CmInit /\ SxInit /\ TkInit /\ AppInit
    /\ user = TRUE /\ storedToken = NoToken

CompatSpec == CompatInit /\ [][CompatNext]_vars

(* The single-fetch MovieExplorer variant runs *)
QueueSpec == Init /\ [][QueueNext]_vars

(* The token-based AuthProvider runs, with or without a stored token *)
TokenSpec == Idle /\ [][TokenNext]_vars

(* The oldest App variant runs *)
AppSpec == Init /\ [][AppNext]_vars

----------------------------------------------------------------------------
(* Properties of the batch MovieExplorer *)

Replenishments == {f \in fetches : f.kind = "replenish"}

NewFetches == fetches' \ fetches

(* C1: at most one replenishment fetch is in flight at any time; a         *)
(* replenishQueue call made while one is in flight issues no request.      *)
C1_OneReplenishInFlight == Cardinality(Replenishments) <= 1

(* C1 witness: replenishQueue was called again while a replenishment was   *)
(* in flight and returned at its guard.                                    *)
C1_Witness == lastOp.blocked /\ Cardinality(Replenishments) = 1

C3_ImmediateAdvance ==
    [][(lastOp'.op = "Rate" /\ Len(movieQueue) > 0) =>
          /\ currentMovie' = Head(movieQueue)
          /\ movieQueue' = Tail(movieQueue)
          /\ Len(posts') = Len(posts) + 1
          /\ posts'[Len(posts')].movie_id = currentMovie]_vars

(* C3 witness: a rating advanced to the queue head while its write is in   *)
(* flight.                                                                 *)
C3_Witness ==
    /\ lastOp.op = "Rate"
    /\ lastOp.some
    /\ Len(posts) > 0
    /\ posts[Len(posts)].movie_id = lastOp.rated
    /\ currentMovie # lastOp.rated

(* C4: the completion of a rating write, successful or failed, changes no  *)
(* view state; a failed write never sets the error state.                  *)
C4_WriteOutcomeIsolated ==
    [][lastOp'.op = "PostDone" =>
          UNCHANGED <<currentMovie, movieQueue, loadingMovie, error,
                      seenMovieIds>>]_vars

(* C4 witness: a rating write has failed and the view shows a movie.       *)
C4_Witness ==
    /\ lastOp.op = "PostDone"
    /\ lastOp.kind = "failed"
    /\ View = "Ready"

(* C5: every request carries in its ignore list the identifiers returned   *)
(* by every fetch that completed before the request was issued.  The       *)
(* source has returned exactly the identifiers below nextId.               *)
C5_DedupPropagation ==
    [][\A f \in NewFetches :
          \A id \in 1..(nextId' - 1) : id \in Range(f.ignore)]_vars

(* C5 witness: a request is in flight that was issued after some fetch     *)
(* had returned movies.                                                    *)
C5_Witness == \E f \in fetches : Len(f.ignore) > 0

(* A fetchNextMovie call ends after meeting nothing but the transient     *)
(* not-found answer.                                                       *)
ForegroundAllTransient(op) ==
    /\ op.op = "TaskDone"
    /\ op.kind = "fetchNext"
    /\ op.onlyTransient

StrictlyIncreasing(s) == \A i \in 1..(Len(s) - 1) : s[i] < s[i + 1]

InitOfFour ==
    /\ lastOp'.op = "FetchDone"
    /\ lastOp'.kind = "init"
    /\ nextId' = nextId + 4

(* C7 as stated: initialising with [A, B, C, D] leaves Current = A and     *)
(* Buffer = [B, C], every returned identifier recorded.                    *)
C7_InitLeavesTwoBuffered ==
    [][InitOfFour =>
          /\ currentMovie' = nextId
          /\ movieQueue' = Run(nextId + 1, 2)
          /\ Range(Run(nextId, 4)) \subseteq Range(seenMovieIds')]_vars

(* C7 amended: initialising with [A, B, C, D] leaves Current = A and       *)
(* Buffer = [B, C, D], every returned identifier recorded.                 *)
C7_InitBuffersTheRest ==
    [][InitOfFour =>
          /\ currentMovie' = nextId
          /\ movieQueue' = Run(nextId + 1, 3)
          /\ Range(Run(nextId, 4)) \subseteq Range(seenMovieIds')]_vars

(* C7 witness: an initial fetch of four movies has just completed.         *)
C7_Witness ==
    /\ lastOp.op = "FetchDone"
    /\ lastOp.kind = "init"
    /\ lastOp.some
    /\ nextId = currentMovie + 4
    /\ movieQueue = Run(currentMovie + 1, 3)

(* C8: seenMovieIds never contains the same identifier twice.              *)
C8_SeenHasNoDuplicates ==
    \A i, j \in 1..Len(seenMovieIds) :
        i # j => seenMovieIds[i] # seenMovieIds[j]

(* An initial fetch completes with a failure or with no movies.            *)
InitFails ==
    /\ lastOp'.op = "FetchDone"
    /\ lastOp'.kind = "init"
    /\ ~lastOp'.some

(* C9: when the initial fetch fails or returns no movies the view shows    *)
(* the error state, currentMovie is null, the queue is empty and no        *)
(* replenishment fetch is started.                                         *)
C9_InitFailureLeavesNothing ==
    [][InitFails =>
          /\ (~loadingMovie' /\ error' # NoError)
          /\ currentMovie' = NULL
          /\ movieQueue' = <<>>
          /\ {f \in fetches' : f.kind = "replenish"} = {}]_vars

(* A rate or skip step taken while the queue is empty.                     *)
AdvanceOnEmptyQueue ==
    /\ \/ lastOp'.op = "Skip"
       \/ lastOp'.op = "Rate" /\ lastOp'.rated # NULL
    /\ movieQueue = <<>>

(* C10: rate or skip with an empty queue performs a single-movie fetch     *)
(* and puts the view in the loading state, in every reachable state.       *)
C10_EmptyQueueFetches ==
    [][AdvanceOnEmptyQueue =>
          /\ \E f \in NewFetches : f.kind = "single"
          /\ loadingMovie']_vars

(* A single-movie fetch, started by a skip, returns a movie while the      *)
(* error state is set.                                                     *)
SingleReturnsInErrorState ==
    /\ lastOp'.op = "FetchDone"
    /\ lastOp'.kind = "single"
    /\ lastOp'.some
    /\ error # NoError

(* C11: a skip in the error view puts the view in the loading state, and   *)
(* when the fetch it started returns a movie the view leaves the error     *)
(* state and shows that movie (Ready).                                     *)
C11_SkipRecoversFromError ==
    [][/\ (lastOp'.op = "Skip" /\ View = "Error") => View' = "Loading"
       /\ SingleReturnsInErrorState =>
              (View' = "Ready" /\ currentMovie' # NULL)]_vars

(* A replenishment fetch completes with a failure or with no movies.       *)
ReplenishFails ==
    /\ lastOp'.op = "FetchDone"
    /\ lastOp'.kind = "replenish"
    /\ ~lastOp'.some

(* C12: a failed or empty replenishment never sets the error state and     *)
(* leaves currentMovie, movieQueue and seenMovieIds unchanged.             *)
C12_ReplenishFailureSwallowed ==
    [][ReplenishFails =>
          /\ error' = error
          /\ UNCHANGED <<currentMovie, movieQueue, seenMovieIds>>]_vars

(* C12 witness: a replenishment has failed while a movie is shown and no   *)
(* error is set.                                                           *)
C12_Witness ==
    /\ lastOp.op = "FetchDone"
    /\ lastOp.kind = "replenish"
    /\ ~lastOp.some
    /\ currentMovie # NULL
    /\ error = NoError

(* A step starts a replenishment while a movie is current and no initial   *)
(* or single-movie fetch is pending.                                       *)
BackgroundReplenishStarts ==
    /\ currentMovie' # NULL
    /\ \E f \in NewFetches : f.kind = "replenish"
    /\ \A f \in fetches' : f.kind = "replenish"

ReplenishCompletesUnmounted ==
    /\ unmounted
    /\ lastOp'.op = "FetchDone"
    /\ lastOp'.kind = "replenish"

(* C14: when the view is unmounted while a replenishment fetch is in       *)
(* flight, the completion of that fetch updates no view state.             *)
C14_NoUpdateAfterUnmount ==
    [][ReplenishCompletesUnmounted =>
          UNCHANGED <<movieQueue, loadingMovie, currentMovie, seenMovieIds,
                      error>>]_vars

(* A movie is shown, the queue is below its minimum and no fetch is in     *)
(* flight.                                                                 *)
StarvedQueue ==
    /\ mounted
    /\ ~unmounted
    /\ currentMovie # NULL
    /\ Len(movieQueue) < MIN_QUEUE_SIZE
    /\ fetches = {}

(* C15: whenever a movie is shown, the queue holds fewer than              *)
(* MIN_QUEUE_SIZE movies and no fetch is in flight, a replenishment fetch  *)
(* is eventually issued, also after a replenishment that failed or         *)
(* returned nothing, without relying on a user action.                     *)
C15_RefillEventuallyIssued ==
    StarvedQueue ~> (\E f \in fetches : f.kind = "replenish")

(* The numeric rating the claim prescribes for each button.                *)
PrescribedRating == [yes |-> 5, maybe |-> 3, no |-> 1]

(* C16: the rating write sent by handleRating carries the identifier of    *)
(* the movie that was current when handleRating was invoked, not that of   *)
(* the movie advanced to, and the numeric rating 5 for yes, 3 for maybe    *)
(* and 1 for no.                                                           *)
C16_PostCarriesRatedMovie ==
    [][(lastOp'.op = "Rate" /\ currentMovie # NULL) =>
          posts' = Append(posts,
                          [movie_id |-> currentMovie,
                           rating |-> PrescribedRating[lastOp'.kind]])]_vars

(* C16 witness: a 'maybe' rating advanced to another movie and its write,  *)
(* in flight, carries the rated movie and the value 3.                     *)
C16_Witness ==
    /\ lastOp.op = "Rate"
    /\ lastOp.kind = "maybe"
    /\ lastOp.rated # NULL
    /\ currentMovie # lastOp.rated
    /\ Len(posts) > 0
    /\ posts[Len(posts)] = [movie_id |-> lastOp.rated, rating |-> 3]

----------------------------------------------------------------------------
(* Properties of the single-preload MovieRatingPage *)

(* A preloadNextMovie call ends without a movie: fetchMovieFromAPI threw,  *)
(* or returned null twice.                                                 *)
PreloadEndsWithoutMovie ==
    /\ pageOp'.op = "TaskDone"
    /\ pageOp'.kind = "preload"
    /\ sourceNext' = sourceNext

(* C17: a background preload that fails or exhausts its retries never sets *)
(* the error state, never opens the snackbar and leaves movieData and      *)
(* nextMovieData as they were (no cell of the page changes).               *)
C17_PreloadFailureSwallowed ==
    [][PreloadEndsWithoutMovie => page' = page]_vars

(* C17 witness: a preload has ended on a thrown error while a movie is     *)
(* shown; nothing is preloaded, no error is set, the snackbar is closed.   *)
C17_Witness ==
    /\ pageOp.op = "TaskDone"
    /\ pageOp.kind = "preload"
    /\ ~pageOp.onlyTransient
    /\ page.movieData # PgNull
    /\ page.nextMovieData = PgNull
    /\ page.error = NoError
    /\ ~page.snackbar.open

----------------------------------------------------------------------------
(* Properties of the cookie-based ApiContext *)

(* C19: every api request whose response has status 401 calls logout, and  *)
(* when the request ends it is rejected with an error, never resolved with *)
(* data, and the session is invalidated: user is null and isAuthenticated  *)
(* false.                                                                  *)
C19_UnauthorizedInvalidatesSession ==
    [][/\ (authOp'.op = "Response" /\ authOp'.status = 401) =>
              authOp'.result = "logout"
       /\ (authOp'.op = "RequestDone" /\ authOp'.status = 401) =>
              /\ authOp'.result = "rejected"
              /\ auth'.user = NoUser
              /\ ~auth'.isAuthenticated
              /\ api'.error # NoError]_vars

(* C19 witness: a signed-in user's request was answered with 401 and has   *)
(* ended: the user was set before the step and is null after it.           *)
C19_Witness ==
    /\ authOp.op = "RequestDone"
    /\ authOp.status = 401
    /\ authOp.result = "rejected"
    /\ authOp.signedIn
    /\ auth.user = NoUser
    /\ api.error = MsgSessionExpired

----------------------------------------------------------------------------
(* Properties of calculateCompatibility *)

SharedCount ==
    Cardinality({i \in 1..Len(combinedPreferences) :
                    BothRated(combinedPreferences[i])})

CompatibleCount ==
    Cardinality({i \in 1..Len(combinedPreferences) :
                    /\ BothRated(combinedPreferences[i])
                    /\ Abs(combinedPreferences[i].user1_rating
                           - combinedPreferences[i].user2_rating) <= 1})

(* 100 * c / n rounded to the nearest integer, a half rounding up *)
RoundedPercentage(c, n) == (200 * c + n) \div (2 * n)

(* C20: calculateCompatibility returns an integer between 0 and 100: 0     *)
(* when the list is empty or no movie was rated by both users, otherwise   *)
(* the rounded percentage of the both-rated movies whose two ratings       *)
(* differ by at most 1.                                                    *)
C20_CompatibilityIsRoundedPercentage ==
    compatibility # NotComputed =>
        /\ compatibility \in 0..100
        /\ compatibility = IF SharedCount = 0
                           THEN 0
                           ELSE RoundedPercentage(CompatibleCount,
                                                  SharedCount)

----------------------------------------------------------------------------
(* Properties of fetchMovieFromAPI *)

(* The same task before and after a step that changed it *)
Stepped(t, u) == u.id = t.id /\ u # t

(* C21: a single call of fetchMovieFromAPI ends after at most 3 requests,  *)
(* whatever mixture of transient bodies, HTTP errors and network errors    *)
(* it meets: no call sends a fourth request, the answer to the third       *)
(* request ends the call, and the wait before the n-th retry is n seconds. *)
C21_CallEndsWithinThreeRequests ==
    [][\A t \in tasks :
          /\ t.pc = "await" /\ t.callReqs = maxRetries =>
                \A u \in tasks' : Stepped(t, u) => u.pc = "gap"
          /\ \A u \in tasks' : Stepped(t, u) =>
                /\ u.callReqs <= maxRetries
                /\ u.pc = "backoff" =>
                      u.delays[Len(u.delays)] = 1000 * u.callReqs
                /\ t.pc = "backoff" =>
                      /\ u.pc = "await"
                      /\ u.callReqs = t.callReqs + 1]_vars

(* C21 witness: a call has ended by throwing after three requests that     *)
(* were not all transient, having waited 1 s and 2 s.                      *)
C21_Witness ==
    /\ pageOp.op = "TaskDone"
    /\ ~pageOp.onlyTransient
    /\ pageOp.reqs = 3
    /\ pageOp.delays = <<1000, 2000>>

----------------------------------------------------------------------------
(* Properties of the single-fetch MovieExplorer variant *)

(* The initial fetches have all been answered and initialize resumes *)
InitCompletes ==
    /\ explorerOp'.op = "BatchDone"
    /\ explorerOp'.kind = "init"

(* C22: the QUEUE_SIZE + 1 initial fetches are issued together and awaited *)
(* jointly; when at least one succeeds, Current is the first successful    *)
(* result in issue order, Buffer holds the remaining successful results in *)
(* issue order and no error is shown; the error state is set only when all *)
(* of them fail.                                                           *)
C22_InitialBatchFillsView ==
    [][/\ explorerOp'.op = "Mount" =>
             \E b \in batches' : /\ b.kind = "init"
                                 /\ Len(b.results) = QUEUE_SIZE + 1
                                 /\ \A i \in 1..Len(b.results) :
                                       b.results[i] = Pending
       /\ InitCompletes =>
             /\ Len(explorerOp'.movies) = QUEUE_SIZE + 1
             /\ LET valid == validMovies(explorerOp'.movies)
                IN  IF Len(valid) > 0
                    THEN /\ explorer'.currentMovie = valid[1]
                         /\ explorer'.movieQueue = Tail(valid)
                         /\ explorer'.error = NoError
                    ELSE explorer'.error = ErrFetchMovies]_vars

----------------------------------------------------------------------------
(* Properties of the preloading of MovieRatingPage *)

Preloads == {t \in tasks : t.kind = "preload"}

(* C23: at most one preload fetch is in flight at a time; in particular a  *)
(* rating that consumes the preloaded movie starts exactly one new         *)
(* preload, in every interleaving of submitRating, the movieData effect    *)
(* and the completions of fetches.                                         *)
C23_OnePreloadInFlight == Cardinality(Preloads) <= 1

----------------------------------------------------------------------------
(* Further properties of the batch MovieExplorer *)

(* The source has returned pairwise distinct movies so far: every          *)
(* returned identifier is appended to seenMovieIds.                        *)
SourceDistinct ==
    \A i, j \in 1..Len(seenMovieIds) :
        i # j => seenMovieIds[i] # seenMovieIds[j]

(* handleRating sends a rating *)
RatingSent ==
    /\ lastOp'.op = "Rate"
    /\ lastOp'.rated # NULL

(* C24: every handleRating call that sends a rating also replaces Current  *)
(* or enters the loading state, so that with a source returning pairwise   *)
(* distinct movies the movie just rated is never offered for rating again  *)
(* and no identifier is sent to the rating endpoint twice.                 *)
C24_RatingAlwaysAdvances ==
    [][RatingSent /\ SourceDistinct =>
          \/ currentMovie' # currentMovie
          \/ loadingMovie']_vars

(* The fetches that set isReplenishing: a background replenishment or the  *)
(* foreground fetch of moveToNextMovie.                                    *)
FlagFetches == {f \in fetches : f.kind \in {"replenish", "single"}}

InFlight(id) == \E f \in FlagFetches : f.id = id

(* The session has used up the requests the model allows; the answer to a  *)
(* request that would start another one is then not modelled.              *)
RequestsUsedUp == reqCount >= MaxFetches

(* C25: isReplenishing is reset after every fetch that set it, whether the *)
(* fetch succeeds, fails or returns no movies: the flag is set only while  *)
(* such a fetch is in flight, every such fetch is eventually answered      *)
(* (within the requests of a session), and after its answer the flag is    *)
(* set only if a new fetch has set it again.  The view never stays locked  *)
(* out of fetching.                                                        *)
C25_FlagEventuallyReset ==
    /\ [](isReplenishing => FlagFetches # {})
    /\ [][FlagFetches # {} /\ FlagFetches \cap FlagFetches' = {} =>
             (isReplenishing' => NewFetches \cap FlagFetches' # {})]_vars
    /\ \A id \in 1..MaxFetches :
          InFlight(id) ~> (~InFlight(id) \/ RequestsUsedUp)

(* C25 witness: a foreground fetch that set the flag has failed and the    *)
(* flag is reset.                                                          *)
C25_Witness ==
    /\ lastOp.op = "FetchDone"
    /\ lastOp.kind = "single"
    /\ ~lastOp.some
    /\ ~isReplenishing
    /\ FlagFetches = {}

(* C26: in every reachable state the identifier of currentMovie and of     *)
(* every movie in movieQueue is contained in seenMovieIds.                 *)
C26_ShownMoviesAreSeen ==
    /\ currentMovie # NULL => currentMovie \in Range(seenMovieIds)
    /\ Range(movieQueue) \subseteq Range(seenMovieIds)

(* C26 witness: a replenishment has appended its batch behind a queue that *)
(* was not empty, while a movie is shown.                                  *)
C26_Witness ==
    /\ lastOp.op = "FetchDone"
    /\ lastOp.kind = "replenish"
    /\ lastOp.some
    /\ currentMovie # NULL
    /\ Len(movieQueue) > FETCH_SIZE
    /\ Range(movieQueue) \subseteq Range(seenMovieIds)

(* s is an initial segment of t *)
IsPrefix(s, t) ==
    /\ Len(s) <= Len(t)
    /\ \A i \in 1..Len(s) : s[i] = t[i]

(* C27: the buffer is first-in first-out with no loss.  Every step either  *)
(* leaves movieQueue alone, or appends to its end, or removes its head,    *)
(* and the removed head is the movie that becomes Current in that step; so *)
(* movies become Current in the order in which they were appended, for     *)
(* every sequence of rate and skip actions.                                *)
C27_BufferIsFifo ==
    [][\/ movieQueue' = movieQueue
       \/ IsPrefix(movieQueue, movieQueue')
       \/ /\ movieQueue # <<>>
          /\ movieQueue' = Tail(movieQueue)
          /\ currentMovie' = Head(movieQueue)]_vars

----------------------------------------------------------------------------
(* Properties of the token-based AuthProvider *)

(* C28: isAuthenticated (currentUser is set) implies that token is         *)
(* non-null, in every reachable state and every interleaving of login,     *)
(* logout and the token-triggered user check.                              *)
C28_AuthenticatedHasToken ==
    isAuthenticated(session) => session.token # NoToken

----------------------------------------------------------------------------
(* Properties of the oldest App variant *)

(* The step is the end of a rating POST that failed *)
WriteFailed == appOp'.op = "rating" /\ ~appOp'.ok /\ appCalls' # appCalls

(* C29: submitRating advances to the next movie only after the rating      *)
(* write has succeeded: a shown movie is replaced only by the step in      *)
(* which a write succeeds or by the fetchNextMovie such a step started.    *)
(* When the write fails, movieData and nextMovieData are unchanged, the    *)
(* snackbar is shown and no fetch is started.                              *)
C29_AdvanceOnlyAfterWrite ==
    [][/\ (app.movieData # AppNull /\ app'.movieData # app.movieData)
            => \/ appOp'.op = "rating" /\ appOp'.ok
               \/ appOp'.op = "fetchNext" /\ appOp'.after = "rating"
       /\ WriteFailed
            => /\ app'.movieData = app.movieData
               /\ app'.nextMovieData = app.nextMovieData
               /\ app'.snackbar = [open |-> TRUE,
                                   message |-> AppMsgRatingFailed]
               /\ appCalls' \subseteq appCalls
               /\ appCount' = appCount]_vars

(* A write failed while a preloaded movie was waiting, which stays         *)
(* preloaded behind the movie that was rated                               *)
C29_Witness ==
    /\ appOp.op = "rating" /\ ~appOp.ok
    /\ app.snackbar.open
    /\ app.movieData # AppNull
    /\ app.nextMovieData # AppNull

----------------------------------------------------------------------------
(* C30: handleRating invoked while currentMovie is null is a no-op: it     *)
(* sends no rating, starts no fetch and leaves currentMovie, movieQueue,   *)
(* loadingMovie and error unchanged.                                       *)
C30_RatingWithoutMovieIsNoOp ==
    [][(lastOp'.op = "Rate" /\ currentMovie = NULL)
          => UNCHANGED <<currentMovie, movieQueue, loadingMovie, error,
                         posts, fetches, reqCount, seenMovieIds,
                         isReplenishing, isInitialMount>>]_vars

(* handleRating was called in a render without a movie *)
C30_Witness ==
    /\ lastOp.op = "Rate"
    /\ lastOp.rated = NULL
    /\ currentMovie = NULL
    /\ posts = <<>>

====
